---- MODULE Spec2Model ----
(***************************************************************************)
(* Model of the bigippg package: the session factory Config.Client with    *)
(* its liveness probe validateConnection, and the schema field validators  *)
(* of validators.go.                                                       *)
(*                                                                         *)
(* Strings handled by the validators are sequences of characters, so that  *)
(* the regular expressions of the source can be evaluated character by     *)
(* character.  An ASCII character is the one-character string holding it;  *)
(* a character outside ASCII is the string "U+XXXX" naming its code point. *)
(***************************************************************************)
EXTENDS Integers, Sequences, FiniteSets, TLC

VARIABLES
    \* ---- session factory (Config.Client) ----
    cfg,        \* the receiver *Config
    pc,         \* position inside Client: "entry", "token", "session", "validate", "done"
    client,     \* the local variable client
    calls,      \* external calls made so far, in order
    log,        \* lines written through the log package, in order
    ret,        \* the pair (handle, error) returned by Client
    \* ---- field validators ----
    value,      \* the argument value interface{}
    field,      \* the argument field string
    fn,         \* the validator that was called ("" before the call)
    param,      \* the argument of the closure constructors (valid / values)
    ws,         \* returned warnings
    errors,     \* returned errors
    outcome     \* "none" before the call, then "returned" or "panicked"

clientVars == <<cfg, pc, client, calls, log, ret>>
validatorVars == <<value, field, fn, param, ws, errors, outcome>>
vars == <<cfg, pc, client, calls, log, ret, value, field, fn, param, ws, errors, outcome>>

(***************************************************************************)
(* Bounds                                                                  *)
(***************************************************************************)
MaxSelfIPs == 2     \* longest self-IP list the probe returns
MaxLen == 4         \* longest string enumerated over Alphabet
MaxVals == 3        \* longest []string enumerated over ListElems

(***************************************************************************)
(* Session factory                                                         *)
(***************************************************************************)
NilHandle == "nil"
Handle == "*bigip.BigIP"
NilErr == "nil"
ErrConfig == "BigIP provider requires address, username and password"
TokenErrors == {"token: 401 Unauthorized", "token: unknown login provider"}
ProbeErrors == {"selfips: connection refused", "selfips: 401 Unauthorized"}

FieldValues == {"", "x"}
Configs ==
    [Address : FieldValues, Port : FieldValues, Username : FieldValues,
     Password : FieldValues, LoginReference : FieldValues,
     ConfigOptions : {"nil", "opts"}]

\* Results of bigip.NewTokenSession: on success a handle and no error; on
\* failure an error, with or without a partially built handle.
TokenResults ==
    {[client |-> Handle, err |-> NilErr]}
        \cup [client : {NilHandle, Handle}, err : TokenErrors]

\* Results of (*BigIP).SelfIPs: a pointer t to a SelfIPs value (nil, or
\* holding a list of n items) and an error.
SelfIPsPointers == [isnil : {TRUE}, n : {0}] \cup [isnil : {FALSE}, n : 0..MaxSelfIPs]
SelfIPsResults == [t : SelfIPsPointers, err : {NilErr} \cup ProbeErrors]

\* The lines written with log.Println / log.Printf
LogInit == [line |-> "[INFO] Initializing BigIP connection", arg |-> ""]
LogTokenErr(e) == [line |-> "[ERROR] Error creating New Token Session %s ", arg |-> e]
LogProbeErr(e) ==
    [line |-> "[ERROR] Connection to BigIP device could not have been validated: %v ",
     arg |-> e]
LogWarn == [line |-> "[WARN] Could not validate connection to BigIP", arg |-> ""]

RequiredFieldsPresent_NoPassword(c) == c.Address # "" /\ c.Username # ""
\* part_000:21
RequiredFieldsPresent(c) == c.Address # "" /\ c.Username # "" /\ c.Password # ""

UsesTokenLogin_Always(c) == TRUE
\* part_000:25
UsesTokenLogin(c) == c.LoginReference # ""

\* part_000:44-56: the error returned and the lines logged for a probe result
validateConnection(r) ==
    IF r.err # NilErr
    THEN [err |-> r.err, logs |-> <<LogProbeErr(r.err)>>]
    ELSE IF r.t.isnil
         THEN [err |-> NilErr, logs |-> <<LogWarn>>]
         ELSE [err |-> NilErr, logs |-> <<>>]

ClientResult_KeepHandle(c, err) == [handle |-> c, err |-> err]
\* part_000:36-39
ClientResult(c, err) ==
    IF err = NilErr THEN [handle |-> c, err |-> NilErr]
    ELSE [handle |-> NilHandle, err |-> err]

TokenFailure_Wrapped(r) == [handle |-> NilHandle, err |-> ErrConfig]
\* part_000:27-30
TokenFailure(r) == [handle |-> NilHandle, err |-> r.err]

\* part_000:19-25 and 41: the check of the required fields
ClientEntry ==
    /\ pc = "entry"
    /\ IF RequiredFieldsPresent(cfg)
       THEN /\ log' = Append(log, LogInit)
            /\ pc' = IF UsesTokenLogin(cfg) THEN "token" ELSE "session"
            /\ ret' = ret
       ELSE /\ ret' = [handle |-> NilHandle, err |-> ErrConfig]
            /\ pc' = "done"
            /\ log' = log
    /\ UNCHANGED <<cfg, client, calls>>

\* part_000:26-30
ClientNewTokenSession ==
    /\ pc = "token"
    /\ \E r \in TokenResults :
        /\ calls' = Append(calls, [name |-> "NewTokenSession", result |-> r])
        /\ client' = r.client
        /\ IF r.err # NilErr
           THEN /\ log' = Append(log, LogTokenErr(r.err))
                /\ ret' = TokenFailure(r)
                /\ pc' = "done"
           ELSE /\ pc' = "validate"
                /\ UNCHANGED <<log, ret>>
    /\ UNCHANGED cfg

\* part_000:33
ClientNewSession ==
    /\ pc = "session"
    /\ calls' = Append(calls, [name |-> "NewSession", result |-> [client |-> Handle, err |-> NilErr]])
    /\ client' = Handle
    /\ pc' = "validate"
    /\ UNCHANGED <<cfg, log, ret>>

\* part_000:35-39 with validateConnection inlined at its call
ClientValidate ==
    /\ pc = "validate"
    /\ \E r \in SelfIPsResults :
        LET v == validateConnection(r) IN
        /\ calls' = Append(calls, [name |-> "SelfIPs", result |-> r])
        /\ log' = log \o v.logs
        /\ ret' = ClientResult(client, v.err)
        /\ pc' = "done"
    /\ UNCHANGED <<cfg, client>>

NoReturn == [handle |-> "-", err |-> "-"]

(***************************************************************************)
(* Strings and character classes of the validators' regular expressions    *)
(***************************************************************************)
LowerCase == <<"a", "b", "c", "d", "e", "f", "g", "h", "i", "j", "k", "l", "m", "n", "o", "p", "q", "r", "s", "t", "u", "v", "w", "x", "y", "z">>
UpperCase == <<"A", "B", "C", "D", "E", "F", "G", "H", "I", "J", "K", "L", "M", "N", "O", "P", "Q", "R", "S", "T", "U", "V", "W", "X", "Y", "Z">>
Letters == {LowerCase[i] : i \in 1..26} \cup {UpperCase[i] : i \in 1..26}
Digits == {"0", "1", "2", "3", "4", "5", "6", "7", "8", "9"}

\* \w
WordClass == Letters \cup Digits \cup {"_"}
\* \d
DigitClass == Digits
\* [\w_\-.]
PartitionClass == WordClass \cup {"_", "-", "."}
\* [\w_\-.:]
NameClass == WordClass \cup {"_", "-", ".", ":"}
\* \s
IsSpace(c) == c \in {" ", "\t", "\n", "\f", "\r"}
\* . (any character but a newline)
IsDot(c) == c # "\n"

\* The characters outside ASCII that Unicode simple case folding puts in the
\* orbit of an ASCII letter: KELVIN SIGN (k, K) and LATIN SMALL LETTER LONG S
\* (s, S)
KelvinSign == "U+212A"
LongS == "U+017F"

\* (?i): the representative of the character's orbit under Unicode simple
\* case folding, as Go's regexp folds: the lower-case letter for an ASCII
\* letter, k for the Kelvin sign, s for the long s, any other character itself
Fold(c) ==
    IF \E i \in 1..26 : UpperCase[i] = c
    THEN LowerCase[CHOOSE i \in 1..26 : UpperCase[i] = c]
    ELSE IF c = KelvinSign THEN "k"
    ELSE IF c = LongS THEN "s"
    ELSE c

\* X+ over s[lo..hi]: at least one character, all of class X
Plus(s, lo, hi, X) == lo <= hi /\ \A i \in lo..hi : s[i] \in X

\* strings.Count(v, c) for a one-character c
Count(s, c) == Cardinality({i \in 1..Len(s) : s[i] = c})

MatchF5Name_ColonInPartition(s) ==
    /\ Len(s) >= 1 /\ s[1] = "/"
    /\ \E j \in 2..Len(s) :
        /\ s[j] = "/"
        /\ Plus(s, 2, j - 1, NameClass)
        /\ Plus(s, j + 1, Len(s), NameClass)

\* ^/[\w_\-.]+/[\w_\-.:]+$
MatchF5Name(s) ==
    /\ Len(s) >= 1 /\ s[1] = "/"
    /\ \E j \in 2..Len(s) :
        /\ s[j] = "/"
        /\ Plus(s, 2, j - 1, PartitionClass)
        /\ Plus(s, j + 1, Len(s), NameClass)

\* ^/[\w_\-.]+/[\w_\-.:]+/[\w_\-.:]+$
MatchF5Directory(s) ==
    /\ Len(s) >= 1 /\ s[1] = "/"
    /\ \E j \in 2..Len(s) : \E k \in (j + 1)..Len(s) :
        /\ s[j] = "/" /\ s[k] = "/"
        /\ Plus(s, 2, j - 1, PartitionClass)
        /\ Plus(s, j + 1, k - 1, NameClass)
        /\ Plus(s, k + 1, Len(s), NameClass)

\* (^/[\w_\-.]+/[\w_\-.:]+/[\w_\-.:]+$)|(^/[\w_\-.]+/[\w_\-.:]+$)
MatchF5NameWithDirectory(s) == MatchF5Directory(s) \/ MatchF5Name(s)

\* ^[^/][^\s]+$
MatchPartitionName(s) ==
    /\ Len(s) >= 2
    /\ s[1] # "/"
    /\ \A i \in 2..Len(s) : ~IsSpace(s[i])

\* ^\/[\w_\-.]+\/[\w_\-.:]+.\d+$
MatchPoolMemberPath(s) ==
    /\ Len(s) >= 1 /\ s[1] = "/"
    /\ \E j \in 2..Len(s) : \E k \in (j + 1)..Len(s) :
        /\ s[j] = "/"
        /\ Plus(s, 2, j - 1, PartitionClass)
        /\ Plus(s, j + 1, k - 1, NameClass)
        /\ IsDot(s[k])
        /\ Plus(s, k + 1, Len(s), DigitClass)

\* ^[\w_\-.]+:\d+$
MatchPoolMemberHost(s) ==
    \E i \in 1..Len(s) :
        /\ s[i] = ":"
        /\ Plus(s, 1, i - 1, PartitionClass)
        /\ Plus(s, i + 1, Len(s), DigitClass)

\* ^lit$ : the whole text is lit
MatchWhole(s, lit) == s = lit

\* (?mi)^lit$ for a literal without newline: some line of the text is lit,
\* letter case ignored
MatchLineFold(s, lit) ==
    \E a \in 1..Len(s) :
        LET b == a + Len(lit) - 1 IN
        /\ a = 1 \/ s[a - 1] = "\n"
        /\ b <= Len(s)
        /\ b = Len(s) \/ s[b + 1] = "\n"
        /\ \A i \in 1..Len(lit) : Fold(s[a + i - 1]) = Fold(lit[i])

S_CommonMyPool == <<"/", "C", "o", "m", "m", "o", "n", "/", "m", "y", "-", "p", "o", "o", "l">>
S_NoLeadingSlash == <<"C", "o", "m", "m", "o", "n", "/", "m", "y", "-", "p", "o", "o", "l">>
S_SlashCommon == <<"/", "C", "o", "m", "m", "o", "n">>
S_CommonTestMyNode == <<"/", "C", "o", "m", "m", "o", "n", "/", "t", "e", "s", "t", "/", "m", "y", "-", "n", "o", "d", "e">>
S_IpPort == <<"1", ".", "1", ".", "1", ".", "1", ":", "8", "0">>
S_Ip == <<"1", ".", "1", ".", "1", ".", "1">>
S_NodePort == <<"/", "C", "o", "m", "m", "o", "n", "/", "n", "o", "d", "e", "1", ":", "8", "0">>
S_Node == <<"/", "C", "o", "m", "m", "o", "n", "/", "n", "o", "d", "e", "1">>
S_NodeColonsPort == <<"/", "C", "o", "m", "m", "o", "n", "/", "f", "e", "8", "0", ":", ":", "1", ":", "8", "0">>
S_NodeColonsDotPort == <<"/", "C", "o", "m", "m", "o", "n", "/", "f", "e", "8", "0", ":", ":", "1", ".", "8", "0">>
S_HostV6Port == <<"f", "e", "8", "0", ":", ":", "1", ":", "8", "0">>
S_Common == <<"C", "o", "m", "m", "o", "n">>
S_TestPartition == <<"t", "e", "s", "t", "-", "p", "a", "r", "t", "i", "t", "i", "o", "n">>
S_enabled == <<"e", "n", "a", "b", "l", "e", "d">>
S_disabled == <<"d", "i", "s", "a", "b", "l", "e", "d">>
S_Enabled == <<"E", "n", "a", "b", "l", "e", "d">>
S_on == <<"o", "n">>
S_required == <<"r", "e", "q", "u", "i", "r", "e", "d">>
S_preferred == <<"p", "r", "e", "f", "e", "r", "r", "e", "d">>
S_string == <<"s", "t", "r", "i", "n", "g">>
S_ip == <<"i", "p">>
S_integer == <<"i", "n", "t", "e", "g", "e", "r">>
S_bool == <<"b", "o", "o", "l">>
S_Utility == <<"U", "t", "i", "l", "i", "t", "y">>
S_regkey == <<"r", "e", "g", "k", "e", "y">>
S_REGKEY == <<"R", "E", "G", "K", "E", "Y">>
S_RegkeySecondLine == <<"x", "\n", "r", "e", "g", "k", "e", "y">>
S_MANAGED == <<"M", "A", "N", "A", "G", "E", "D">>
S_UNMANAGED == <<"U", "N", "M", "A", "N", "A", "G", "E", "D">>
S_UNREACHABLE == <<"U", "N", "R", "E", "A", "C", "H", "A", "B", "L", "E">>
S_managed == <<"m", "a", "n", "a", "g", "e", "d">>
S_BadName == <<"/", "b", "a", "d", " ", "n", "a", "m", "e">>
S_RegKelvinEy == <<"r", "e", "g", KelvinSign, "e", "y">>
S_UtilityLongS == <<"U", "t", "i", "l", "i", "t", "y", LongS>>
S_KelvinName == <<"/", "a", "/", KelvinSign>>

\* ^enabled$|^disabled$
MatchEnabledDisabled(s) == MatchWhole(s, S_enabled) \/ MatchWhole(s, S_disabled)
\* ^required$|^preferred$|^disabled$
MatchReqPrefDisabled(s) ==
    MatchWhole(s, S_required) \/ MatchWhole(s, S_preferred) \/ MatchWhole(s, S_disabled)
\* ^string$|^ip$|^integer$
MatchDataGroupType(s) ==
    MatchWhole(s, S_string) \/ MatchWhole(s, S_ip) \/ MatchWhole(s, S_integer)
\* (?mi)^Utility$|^regkey$
MatchPoolLicenseType(s) == MatchLineFold(s, S_Utility) \/ MatchLineFold(s, S_regkey)
\* (?mi)^MANAGED$|^UNMANAGED$|^UNREACHABLE$
MatchAssignmentType(s) ==
    MatchLineFold(s, S_MANAGED) \/ MatchLineFold(s, S_UNMANAGED)
        \/ MatchLineFold(s, S_UNREACHABLE)

(***************************************************************************)
(* Field validators                                                        *)
(***************************************************************************)
\* Values of the argument value interface{}, by dynamic type
StringValue(s) == [type |-> "string", str |-> s, list |-> <<>>, set |-> {}, isnil |-> FALSE]
SliceValue(l) == [type |-> "[]string", str |-> <<>>, list |-> l, set |-> {}, isnil |-> FALSE]
SlicePtrValue(l) == [type |-> "*[]string", str |-> <<>>, list |-> l, set |-> {}, isnil |-> FALSE]
NilSlicePtr == [type |-> "*[]string", str |-> <<>>, list |-> <<>>, set |-> {}, isnil |-> TRUE]
SetValue(S) == [type |-> "*schema.Set", str |-> <<>>, list |-> <<>>, set |-> S, isnil |-> FALSE]
IntValue == [type |-> "int", str |-> <<>>, list |-> <<>>, set |-> {}, isnil |-> FALSE]

Returned(w, e) == [ws |-> w, errors |-> e, outcome |-> "returned"]
Panicked == [ws |-> <<>>, errors |-> <<>>, outcome |-> "panicked"]

\* fmt.Errorf(format, args...)
Errorf(format, args) == [format |-> format, args |-> args]

\* setToStringSlice: the elements of the set as a slice of strings
setToStringSlice(S) ==
    CHOOSE l \in [1..Cardinality(S) -> S] : {l[i] : i \in 1..Cardinality(S)} = S

\* The type switch that opens every pattern validator: the slice values, the
\* errors so far, and whether the dereference of a nil *[]string aborted.
TypeSwitch(v, unknown) ==
    CASE v.type = "*schema.Set" ->
            [values |-> setToStringSlice(v.set), errors |-> <<>>, panic |-> FALSE]
      [] v.type = "[]string" ->
            [values |-> v.list, errors |-> <<>>, panic |-> FALSE]
      [] v.type = "*[]string" ->
            [values |-> v.list, errors |-> <<>>, panic |-> v.isnil]
      [] v.type = "string" ->
            [values |-> <<v.str>>, errors |-> <<>>, panic |-> FALSE]
      [] OTHER ->
            [values |-> <<>>, errors |-> <<Errorf(unknown, <<v.type>>)>>, panic |-> FALSE]

RECURSIVE RangeLoop_FailFast(_, _, _)
RangeLoop_FailFast(errs, found, i) ==
    IF i > Len(found) THEN errs
    ELSE IF found[i] # <<>> THEN errs \o found[i]
    ELSE RangeLoop_FailFast(errs, found, i + 1)

\* for _, v := range values { ... errors = append(errors, ...) }, from the
\* i-th value on; found[i] holds the error of the i-th value, if any
RECURSIVE RangeLoop(_, _, _)
RangeLoop(errs, found, i) ==
    IF i > Len(found) THEN errs
    ELSE RangeLoop(errs \o found[i], found, i + 1)

CheckF5Name(s, f) ==
    IF MatchF5Name(s) THEN <<>>
    ELSE <<Errorf("%q must match /Partition/Name and contain letters, numbers or [._-:]. e.g. /Common/my-pool", <<f>>)>>

CheckF5NameWithDirectory(s, f) ==
    IF MatchF5NameWithDirectory(s) THEN <<>>
    ELSE <<Errorf("%q must match /Partition/Name or /Partition/Directory/Name  e.g. /Common/my-node or /Common/test/my-node", <<f>>)>>

CheckPartitionName(s, f) ==
    IF MatchPartitionName(s) THEN <<>>
    ELSE <<Errorf("%q name should not start with '/', e.g Common [or] test-partition are valid ", <<f>>)>>

CheckPoolMemberName(s, f) ==
    IF Count(s, ":") >= 2
    THEN IF MatchPoolMemberPath(s) THEN <<>>
         ELSE <<Errorf("%q must match /Partition/Node_Name:Port and contain letters, numbers or [:._-]. e.g. /Common/node1:80", <<f>>)>>
    ELSE IF MatchPoolMemberHost(s) THEN <<>>
         ELSE <<Errorf("%q must match Node-address:Port and Node Address is IP/FQDN. e.g. 1.1.1.1:80/www.google.com:80", <<f>>)>>

CheckEnabledDisabled(s, f) ==
    IF MatchEnabledDisabled(s) THEN <<>>
    ELSE <<Errorf("%q must match as enabled or disabled", <<f>>)>>

CheckReqPrefDisabled(s, f) ==
    IF MatchReqPrefDisabled(s) THEN <<>>
    ELSE <<Errorf("%q must match as required, preferred, or disabled", <<f>>)>>

CheckDataGroupType(s, f) ==
    IF MatchDataGroupType(s) THEN <<>>
    ELSE <<Errorf("%q must match as string, ip, or integer", <<f>>)>>

CheckPoolLicenseType(s, f) ==
    IF MatchPoolLicenseType(s) THEN <<>>
    ELSE <<Errorf("%q must match as Utility (or) Regkey", <<f>>)>>

CheckAssignmentType(s, f) ==
    IF MatchAssignmentType(s) THEN <<>>
    ELSE <<Errorf("%q must match as MANAGED/UNMANAGED/UNREACHABLE", <<f>>)>>

\* The body of the range loop of pattern validator name, for the value s
Check(name, s, f) ==
    CASE name = "validateF5Name" -> CheckF5Name(s, f)
      [] name = "validateF5NameWithDirectory" -> CheckF5NameWithDirectory(s, f)
      [] name = "validatePartitionName" -> CheckPartitionName(s, f)
      [] name = "validatePoolMemberName" -> CheckPoolMemberName(s, f)
      [] name = "validateEnabledDisabled" -> CheckEnabledDisabled(s, f)
      [] name = "validateReqPrefDisabled" -> CheckReqPrefDisabled(s, f)
      [] name = "validateDataGroupType" -> CheckDataGroupType(s, f)
      [] name = "validatePoolLicenseType" -> CheckPoolLicenseType(s, f)
      [] name = "validateAssignmentType" -> CheckAssignmentType(s, f)

\* The format of the error in the default case of the type switch
UnknownTypeFormat(name) ==
    CASE name = "validateF5Name" -> "Unknown type %v in validateF5Name"
      [] name = "validateF5NameWithDirectory" -> "Unknown type %v in validateF5Name"
      [] name = "validatePartitionName" -> "Unknown type %v in validatePartitionName"
      [] name = "validatePoolMemberName" -> "Unknown type %v in validatePoolMemberName"
      [] name = "validateEnabledDisabled" -> "Unknown type %v in validateEnabledDisabled"
      [] name = "validateReqPrefDisabled" -> "Unknown type %v in validateReqPrefDisabled"
      [] name = "validateDataGroupType" -> "Unknown type %v in validateDataGroupType"
      [] name = "validatePoolLicenseType" -> "Unknown type %v in validatePoolLicenseType"
      [] name = "validateAssignmentType" -> "Unknown type %v in validatePoolLicenseType"

\* The shape shared by the pattern validators: the type switch, then the
\* range loop with one check per value.
PatternValidator(name, v, f) ==
    LET sw == TypeSwitch(v, UnknownTypeFormat(name)) IN
    IF sw.panic THEN Panicked
    ELSE Returned(<<>>,
            RangeLoop(sw.errors,
                      [i \in 1..Len(sw.values) |-> Check(name, sw.values[i], f)], 1))

\* validateSetValues(valid)(value, field)
SetValuesResult(valid, v, f) ==
    IF v.type # "*schema.Set" THEN Panicked
    ELSE IF Cardinality(valid \cap v.set) # Cardinality(v.set)
         THEN Returned(<<>>, <<Errorf("%q can only contain %v", <<f, v.set>>)>>)
         ELSE Returned(<<>>, <<>>)

\* validateStringValue(values)(value, field): the type assertion is made in
\* the loop body, so it is reached only when values is not empty
StringValueResult(values, v, f) ==
    IF values # <<>> /\ v.type # "string" THEN Panicked
    ELSE IF \E i \in 1..Len(values) : values[i] = v.str
         THEN Returned(<<>>, <<>>)
         ELSE Returned(<<>>, <<Errorf("%q must be one of %v", <<f, values>>)>>)

NoParam == [valid |-> {}, values |-> <<>>]

\* The call of validator name with result r
Call(name, p, r) ==
    /\ outcome = "none"
    /\ fn' = name
    /\ param' = p
    /\ ws' = r.ws
    /\ errors' = r.errors
    /\ outcome' = r.outcome
    /\ UNCHANGED <<value, field>>

validateF5Name ==
    Call("validateF5Name", NoParam, PatternValidator("validateF5Name", value, field))

validateF5NameWithDirectory ==
    Call("validateF5NameWithDirectory", NoParam, PatternValidator("validateF5NameWithDirectory", value, field))

validatePartitionName ==
    Call("validatePartitionName", NoParam, PatternValidator("validatePartitionName", value, field))

validatePoolMemberName ==
    Call("validatePoolMemberName", NoParam, PatternValidator("validatePoolMemberName", value, field))

validateEnabledDisabled ==
    Call("validateEnabledDisabled", NoParam, PatternValidator("validateEnabledDisabled", value, field))

validateReqPrefDisabled ==
    Call("validateReqPrefDisabled", NoParam, PatternValidator("validateReqPrefDisabled", value, field))

validateDataGroupType ==
    Call("validateDataGroupType", NoParam, PatternValidator("validateDataGroupType", value, field))

validatePoolLicenseType ==
    Call("validatePoolLicenseType", NoParam, PatternValidator("validatePoolLicenseType", value, field))

validateAssignmentType ==
    Call("validateAssignmentType", NoParam, PatternValidator("validateAssignmentType", value, field))

(***************************************************************************)
(* Inputs of the validators                                                *)
(***************************************************************************)
Alphabet == {"a", "1", ".", ":", "/", " "}
ShortStrings == UNION {[1..n -> Alphabet] : n \in 0..MaxLen}
Samples ==
    {S_CommonMyPool, S_NoLeadingSlash, S_SlashCommon, S_CommonTestMyNode,
     S_IpPort, S_Ip, S_NodePort, S_Node,
     S_NodeColonsPort, S_NodeColonsDotPort, S_HostV6Port, S_Common,
     S_TestPartition, S_enabled, S_disabled, S_Enabled,
     S_on, S_required, S_preferred, S_string,
     S_ip, S_integer, S_bool, S_Utility,
     S_regkey, S_REGKEY, S_RegkeySecondLine, S_MANAGED,
     S_UNMANAGED, S_UNREACHABLE, S_managed, S_BadName,
     S_RegKelvinEy, S_UtilityLongS, S_KelvinName}
ListElems ==
    {S_CommonMyPool, S_IpPort, S_Common, S_enabled, S_disabled, S_string,
     S_Utility, S_MANAGED, S_BadName}
Lists == UNION {[1..n -> ListElems] : n \in 0..MaxVals}
SetElems == {S_enabled, S_disabled, S_on}
Sets == SUBSET SetElems
Values ==
    {StringValue(s) : s \in ShortStrings \cup Samples}
        \cup {SliceValue(l) : l \in Lists}
        \cup {SlicePtrValue(l) : l \in Lists}
        \cup {SetValue(S) : S \in Sets}
        \cup {NilSlicePtr, IntValue}
ValidSets == {{}, {S_enabled, S_disabled}}
ValidStrings == {<<>>, <<S_enabled, S_disabled>>}

validateSetValues ==
    \E valid \in ValidSets :
        Call("validateSetValues", [valid |-> valid, values |-> <<>>], SetValuesResult(valid, value, field))

validateStringValue ==
    \E values \in ValidStrings :
        Call("validateStringValue", [valid |-> {}, values |-> values], StringValueResult(values, value, field))

NoClient ==
    /\ cfg = "none" /\ pc = "idle" /\ client = NilHandle
    /\ calls = <<>> /\ log = <<>> /\ ret = NoReturn

NoValidator ==
    /\ value = "none" /\ field = "" /\ fn = "" /\ param = NoParam
    /\ ws = <<>> /\ errors = <<>> /\ outcome = "idle"

InitClient ==
    /\ cfg \in Configs
    /\ pc = "entry"
    /\ client = NilHandle
    /\ calls = <<>>
    /\ log = <<>>
    /\ ret = NoReturn
    /\ NoValidator

NextClient ==
    \/ ClientEntry /\ UNCHANGED validatorVars
    \/ ClientNewTokenSession /\ UNCHANGED validatorVars
    \/ ClientNewSession /\ UNCHANGED validatorVars
    \/ ClientValidate /\ UNCHANGED validatorVars

SpecClient == InitClient /\ [][NextClient]_vars

InitValidators ==
    /\ value \in Values
    /\ field = "name"
    /\ fn = ""
    /\ param = NoParam
    /\ ws = <<>>
    /\ errors = <<>>
    /\ outcome = "none"
    /\ NoClient

NextValidators ==
    \/ validateSetValues /\ UNCHANGED clientVars
    \/ validateStringValue /\ UNCHANGED clientVars
    \/ validateF5Name /\ UNCHANGED clientVars
    \/ validateF5NameWithDirectory /\ UNCHANGED clientVars
    \/ validatePartitionName /\ UNCHANGED clientVars
    \/ validatePoolMemberName /\ UNCHANGED clientVars
    \/ validateEnabledDisabled /\ UNCHANGED clientVars
    \/ validateReqPrefDisabled /\ UNCHANGED clientVars
    \/ validateDataGroupType /\ UNCHANGED clientVars
    \/ validatePoolLicenseType /\ UNCHANGED clientVars
    \/ validateAssignmentType /\ UNCHANGED clientVars

SpecValidators == InitValidators /\ [][NextValidators]_vars

(***************************************************************************)
(* Properties of the session factory, checked under SpecClient             *)
(***************************************************************************)
CallNames == [i \in 1..Len(calls) |-> calls[i].name]
LastCall == calls[Len(calls)]
Warned == \E i \in 1..Len(log) : log[i] = LogWarn

\* C1: when Address, Username or Password is empty, Client makes no external
\* call at any point and returns a nil handle with the configuration error,
\* whatever Port, LoginReference and ConfigOptions are.
C1_MissingFieldNoCall ==
    (cfg.Address = "" \/ cfg.Username = "" \/ cfg.Password = "") =>
        /\ calls = <<>>
        /\ pc \in {"entry", "done"}
        /\ pc = "done" => ret = [handle |-> NilHandle, err |-> ErrConfig]

C1_Witness ==
    /\ pc = "done"
    /\ cfg.Address # "" /\ cfg.Username # "" /\ cfg.Password = ""
    /\ cfg.LoginReference # ""
    /\ ret.err = ErrConfig /\ calls = <<>>

\* C2: with the required fields and a LoginReference, NewTokenSession is
\* called exactly once and NewSession never; when that login fails, Client
\* returns nil and the login's own error, and SelfIPs is never called.
C2_TokenLogin ==
    (cfg.Address # "" /\ cfg.Username # "" /\ cfg.Password # ""
        /\ cfg.LoginReference # "") =>
        /\ \A i \in 1..Len(calls) : calls[i].name # "NewSession"
        /\ Cardinality({i \in 1..Len(calls) : calls[i].name = "NewTokenSession"})
              = (IF pc \in {"entry", "token"} THEN 0 ELSE 1)
        /\ pc \in {"validate", "done"} => calls[1].name = "NewTokenSession"
        /\ (pc = "done" /\ calls[1].result.err # NilErr) =>
              /\ ret = [handle |-> NilHandle, err |-> calls[1].result.err]
              /\ Len(calls) = 1

C2_Witness ==
    /\ pc = "done"
    /\ cfg.LoginReference # ""
    /\ CallNames = <<"NewTokenSession">>
    /\ calls[1].result.client = Handle
    /\ calls[1].result.err \in TokenErrors
    /\ ret = [handle |-> NilHandle, err |-> calls[1].result.err]

\* C3 (as claimed): after the probe, a non-empty result gives success without
\* a warning, an empty but successful result gives success with the warning
\* logged, and a probe error gives nil and the probe's error.  A result is
\* empty when the pointer is nil or the list it points to has no item.
C3_ProbeThreeWays ==
    (pc = "done" /\ calls # <<>> /\ LastCall.name = "SelfIPs") =>
        LET r == LastCall.result
            empty == r.t.isnil \/ r.t.n = 0
        IN  IF r.err # NilErr
            THEN ret = [handle |-> NilHandle, err |-> r.err]
            ELSE /\ ret = [handle |-> client, err |-> NilErr]
                 /\ Warned <=> empty

\* C4: with the required fields and no LoginReference, the calls are
\* NewSession and then SelfIPs, each once and in that order, NewTokenSession
\* is never called, and Client returns an error exactly when the probe did.
C4_BasicSession ==
    (cfg.Address # "" /\ cfg.Username # "" /\ cfg.Password # ""
        /\ cfg.LoginReference = "") =>
        /\ pc # "token"
        /\ pc \in {"entry", "session"} => CallNames = <<>>
        /\ pc = "validate" => CallNames = <<"NewSession">>
        /\ pc = "done" =>
              /\ CallNames = <<"NewSession", "SelfIPs">>
              /\ ret.err # NilErr <=> calls[2].result.err # NilErr

C4_Witness ==
    /\ pc = "done"
    /\ cfg.LoginReference = ""
    /\ CallNames = <<"NewSession", "SelfIPs">>
    /\ calls[2].result.err \in ProbeErrors
    /\ ret.err = calls[2].result.err

\* C10: on every return of Client the handle is non-nil exactly when the
\* error is nil, and a handle whose probe failed is never returned.
C10_HandleXorError ==
    pc = "done" =>
        /\ ret.handle # NilHandle <=> ret.err = NilErr
        /\ (calls # <<>> /\ LastCall.name = "SelfIPs" /\ LastCall.result.err # NilErr)
              => ret.handle = NilHandle

C10_Witness ==
    /\ pc = "done"
    /\ calls # <<>> /\ LastCall.name = "SelfIPs"
    /\ LastCall.result.err \in ProbeErrors
    /\ client = Handle
    /\ ret = [handle |-> NilHandle, err |-> LastCall.result.err]

(***************************************************************************)
(* Properties of the validators, checked under SpecValidators              *)
(***************************************************************************)
PatternValidators ==
    {"validateF5Name", "validateF5NameWithDirectory", "validatePartitionName",
     "validatePoolMemberName", "validateEnabledDisabled", "validateReqPrefDisabled",
     "validateDataGroupType", "validatePoolLicenseType", "validateAssignmentType"}

\* Whether string s conforms to the rule of pattern validator name
Conforms(name, s) ==
    CASE name = "validateF5Name" -> MatchF5Name(s)
      [] name = "validateF5NameWithDirectory" -> MatchF5NameWithDirectory(s)
      [] name = "validatePartitionName" -> MatchPartitionName(s)
      [] name = "validatePoolMemberName" ->
            IF Count(s, ":") >= 2 THEN MatchPoolMemberPath(s) ELSE MatchPoolMemberHost(s)
      [] name = "validateEnabledDisabled" -> MatchEnabledDisabled(s)
      [] name = "validateReqPrefDisabled" -> MatchReqPrefDisabled(s)
      [] name = "validateDataGroupType" -> MatchDataGroupType(s)
      [] name = "validatePoolLicenseType" -> MatchPoolLicenseType(s)
      [] name = "validateAssignmentType" -> MatchAssignmentType(s)

PoolMemberPathFormat ==
    "%q must match /Partition/Node_Name:Port and contain letters, numbers or [:._-]. e.g. /Common/node1:80"
PoolMemberHostFormat ==
    "%q must match Node-address:Port and Node Address is IP/FQDN. e.g. 1.1.1.1:80/www.google.com:80"

\* C5 (as claimed): validatePoolMemberName accepts "1.1.1.1:80" and
\* "/Common/node1:80", rejects "1.1.1.1" and "/Common/node1", and applies the
\* /Partition/NodeName rule exactly to the values with two colons or more.
C5_PoolMemberExamples ==
    (fn = "validatePoolMemberName" /\ value.type = "string") =>
        /\ value.str \in {S_IpPort, S_NodePort} => errors = <<>>
        /\ value.str \in {S_Ip, S_Node} => errors # <<>>
        /\ errors # <<>> =>
              errors[1].format = (IF Count(value.str, ":") >= 2
                                  THEN PoolMemberPathFormat ELSE PoolMemberHostFormat)

UnknownTypeFormats ==
    {"Unknown type %v in validateF5Name", "Unknown type %v in validatePartitionName",
     "Unknown type %v in validatePoolMemberName",
     "Unknown type %v in validateEnabledDisabled",
     "Unknown type %v in validateReqPrefDisabled",
     "Unknown type %v in validateDataGroupType",
     "Unknown type %v in validatePoolLicenseType"}

\* C6 (as claimed): every validator, the set-membership and the enum-string
\* validators included, returns normally, and for a value of a type it does
\* not recognize the returned errors hold one that describes the type.
C6_NeverPanics ==
    fn # "" =>
        /\ outcome = "returned"
        /\ value.type = "int" =>
              \E i \in 1..Len(errors) : errors[i].format \in UnknownTypeFormats

\* C7: a pattern validator given a slice of n strings returns normally with
\* no warning and with exactly one error, naming the field, for each of the
\* values that does not conform to its rule: none is skipped after a failure.
C7_OneErrorPerOffender ==
    (fn \in PatternValidators /\ value.type \in {"[]string", "*[]string"}
        /\ ~value.isnil) =>
        /\ outcome = "returned"
        /\ ws = <<>>
        /\ Len(errors)
              = Cardinality({i \in 1..Len(value.list) : ~Conforms(fn, value.list[i])})
        /\ \A j \in 1..Len(errors) : errors[j].args = <<field>>

C7_Witness ==
    /\ fn = "validateEnabledDisabled"
    /\ value = SliceValue(<<S_string, S_enabled, S_Common>>)
    /\ Len(errors) = 2
    /\ ws = <<>>

\* C8 (as claimed): validatePartitionName returns no error exactly for the
\* strings that do not start with '/' and hold no whitespace character.
C8_PartitionNameRule ==
    (fn = "validatePartitionName" /\ value.type = "string") =>
        (errors = <<>> <=>
            /\ value.str = <<>> \/ value.str[1] # "/"
            /\ \A i \in 1..Len(value.str) : ~IsSpace(value.str[i]))

\* The form /Partition/Name with both segments non-empty, the partition over
\* the characters P and the name over the characters N
SlashForm(s, P, N) ==
    LET slashes == {i \in 1..Len(s) : s[i] = "/"} IN
    /\ Cardinality(slashes) = 2
    /\ 1 \in slashes
    /\ LET j == CHOOSE i \in slashes : i # 1 IN
        /\ 2 < j /\ j < Len(s)
        /\ \A i \in 2..(j - 1) : s[i] \in P
        /\ \A i \in (j + 1)..Len(s) : s[i] \in N

\* C9 (as claimed): validateF5Name returns no error exactly for /Partition/Name
\* with Partition and Name non-empty over letters, digits and . _ - :
C9_F5NameAsClaimed ==
    (fn = "validateF5Name" /\ value.type = "string") =>
        (errors = <<>> <=>
            SlashForm(value.str, Letters \cup Digits \cup {".", "_", "-", ":"},
                      Letters \cup Digits \cup {".", "_", "-", ":"}))

\* C9 (amended): validateF5Name returns no error exactly for /Partition/Name
\* with Partition non-empty over ASCII letters, digits and . _ - (no colon) and
\* Name non-empty over ASCII letters, digits and . _ - : ; "/Common/my-pool" is
\* accepted, "Common/my-pool" and "/Common" are rejected.
C9_F5NameRule ==
    (fn = "validateF5Name" /\ value.type = "string") =>
        /\ errors = <<>> <=>
              SlashForm(value.str, Letters \cup Digits \cup {".", "_", "-"},
                        Letters \cup Digits \cup {".", "_", "-", ":"})
        /\ value.str = S_CommonMyPool => errors = <<>>
        /\ value.str \in {S_NoLeadingSlash, S_SlashCommon} => Len(errors) = 1

C9_Witness ==
    /\ fn = "validateF5Name"
    /\ value = StringValue(<<"/", ":", "/", "a">>)
    /\ Len(errors) = 1

====
